---- MODULE Spec2Model ----
(***************************************************************************)
(* Model of the galaxy-profile bootstrap scripts                           *)
(* (src/bootstrap_galaxy_profile.py and src/galaxy_run.py).                *)
(*                                                                         *)
(* Four parts, each with its own specification:                            *)
(*   SpecMerge    - main's relocation loop and merge_move on a filesystem  *)
(*   SpecConfig   - ensure_config on config.yml and .gitignore             *)
(*   SpecWorkflow - update_workflow / ensure_workflow on a workflow file   *)
(*   SpecProbe    - is_repo_structure / find_imported_subdir               *)
(*                                                                         *)
(* A filesystem is a function from paths (sequences of names, <<>> being   *)
(* the repository root) to entries.  A text document is a sequence of      *)
(* tokens; the text it stands for is the concatenation of its tokens.      *)
(***************************************************************************)
EXTENDS Naturals, Sequences, FiniteSets, TLC

VARIABLES
    fs,         \* the filesystem under the repository root
    pending,    \* names of list(sub.iterdir()) that main has not moved yet
    pc,         \* main's position: "loop", "done", "error"
    call,       \* the last merge_move call main made, and what it did
    config,     \* root/config.yml: [exists, text]
    examples,   \* the four template files of ensure_config, in its order
    gitignore,  \* root/.gitignore: [exists, text]
    username,   \* the --username argument
    runs,       \* ensure_config runs that returned
    read,       \* the config text the last ensure_config run read (line 97)
    cfgpc,      \* "ready", or "error" once ensure_config has raised
    wfdir,      \* whether root/.github/workflows exists
    workflow,   \* .github/workflows/generate-profile.yml: [exists, text]
    wfRuns,     \* workflow routine runs that returned
    wfRead,     \* the text the last run read from the workflow file
    wfPatched,  \* whether the last run took the file through the patch
    wfWrote,    \* whether the last run wrote the workflow file
    wfpc,       \* "ready", or "error" once update_workflow has raised
    children,   \* root.iterdir(): the root's entries in listing order
    found,      \* find_imported_subdir's result: a position in children, 0 for None
    probed      \* whether find_imported_subdir has been called

varsMerge == <<fs, pending, pc, call>>
varsConfig == <<config, examples, gitignore, username, runs, read, cfgpc>>
varsWorkflow == <<wfdir, workflow, wfRuns, wfRead, wfPatched, wfWrote, wfpc>>
varsProbe == <<children, found, probed>>

vars == <<fs, pending, pc, call,
          config, examples, gitignore, username, runs, read, cfgpc,
          wfdir, workflow, wfRuns, wfRead, wfPatched, wfWrote, wfpc,
          children, found, probed>>

(***************************************************************************)
(* Bounds                                                                  *)
(***************************************************************************)
\* Top-level names are "X" followed by 0..MaxSuffix ".from_import" suffixes.
MaxSuffix == 1
\* A config.yml, .gitignore or workflow file given to a patch routine has
\* 1..MaxLines lines.
MaxLines == 3
\* A patch routine is run at most MaxRuns times in a row.
MaxRuns == 3
\* The root given to find_imported_subdir has at most MaxChildren entries.
MaxChildren == 3

(***************************************************************************)
(* Paths and filesystem primitives (pathlib / os)                          *)
(***************************************************************************)
FROM_IMPORT == ".from_import"

File(c) == [kind |-> "file", content |-> c]
Dir == [kind |-> "dir", content |-> ""]

exists(f, p) == p \in DOMAIN f
is_dir(f, p) == p \in DOMAIN f /\ f[p].kind = "dir"
is_file(f, p) == p \in DOMAIN f /\ f[p].kind = "file"

parent(p) == SubSeq(p, 1, Len(p) - 1)
name(p) == p[Len(p)]
with_name(p, n) == Append(parent(p), n)

Children(f, p) == {q \in DOMAIN f : Len(q) = Len(p) + 1 /\ parent(q) = p}

\* The restriction of f to the paths other than p.
Without(f, p) == [q \in DOMAIN f \ {p} |-> f[q]]
\* f with path p holding entry e.
With(f, p, e) == [q \in DOMAIN f \cup {p} |-> IF q = p THEN e ELSE f[q]]

\* Path.iterdir(): the names present in directory p, in listing order ord.
iterdir(f, p, ord) == SelectSeq(ord, LAMBDA n : Append(p, n) \in DOMAIN f)

\* Path.mkdir(parents=True, exist_ok=True): raises when p, or an ancestor
\* of p, exists and is not a directory.
RECURSIVE mkdir_p(_, _)
mkdir_p(f, p) ==
    IF p \in DOMAIN f
    THEN [fs |-> f, ok |-> f[p].kind = "dir"]
    ELSE LET up == mkdir_p(f, parent(p))
         IN  IF up.ok THEN [fs |-> With(up.fs, p, Dir), ok |-> TRUE]
                      ELSE up

\* Path.rmdir() inside try/except OSError: removes p only when it is empty.
try_rmdir(f, p) == IF Children(f, p) = {} THEN Without(f, p) ELSE f

\* shutil.move(src, dst) for a file src: into dst when dst is a directory
\* (raising shutil.Error when that name is taken there), else os.rename,
\* which replaces an existing file dst.
shutil_move(f, src, dst) ==
    LET real_dst == IF is_dir(f, dst) THEN Append(dst, name(src)) ELSE dst
    IN  IF is_dir(f, dst) /\ exists(f, real_dst)
        THEN [fs |-> f, ok |-> FALSE]
        ELSE [fs |-> With(Without(f, src), real_dst, f[src]), ok |-> TRUE]

(***************************************************************************)
(* merge_move.  st = [fs, ok, log]: ok is FALSE once an exception is       *)
(* propagating; log records, for every file merge_move reached, where it   *)
(* came from, the destination path, whether that path existed and what it  *)
(* held.                                                                   *)
(***************************************************************************)
\* MoveAside with the imported file set aside beside the source instead of
\* beside the destination.
MoveAsideInSource(st, src, dst) ==
    LET alt == with_name(src, name(src) \o FROM_IMPORT)
        mv == shutil_move(st.fs, src, alt)
    IN  [fs |-> mv.fs, ok |-> mv.ok,
         log |-> st.log \cup {[src |-> src, dst |-> dst, conflict |-> TRUE,
                               held |-> st.fs[dst], content |-> st.fs[src].content]}]

\* The conflict branch: dst exists, src goes to dst.name + ".from_import".
MoveAside(st, src, dst) ==
    LET alt == with_name(dst, name(dst) \o FROM_IMPORT)
        mv == shutil_move(st.fs, src, alt)
    IN  [fs |-> mv.fs, ok |-> mv.ok,
         log |-> st.log \cup {[src |-> src, dst |-> dst, conflict |-> TRUE,
                               held |-> st.fs[dst], content |-> st.fs[src].content]}]

\* The free branch: dst does not exist, src is moved there.
MoveInto(st, src, dst) ==
    LET mk == mkdir_p(st.fs, parent(dst))
        mv == shutil_move(mk.fs, src, dst)
    IN  IF ~mk.ok
        THEN [fs |-> mk.fs, ok |-> FALSE, log |-> st.log]
        ELSE [fs |-> mv.fs, ok |-> mv.ok,
              log |-> st.log \cup {[src |-> src, dst |-> dst, conflict |-> FALSE,
                                    held |-> Dir, content |-> st.fs[src].content]}]

RECURSIVE merge_move(_, _, _, _)
RECURSIVE merge_children(_, _, _, _, _)

\* for item in src.iterdir(): merge_move(item, dst / item.name)
merge_children(st, src, dst, names, ord) ==
    IF names = <<>> \/ ~st.ok
    THEN st
    ELSE merge_children(
             merge_move(st, Append(src, Head(names)), Append(dst, Head(names)), ord),
             src, dst, Tail(names), ord)

merge_move(st, src, dst, ord) ==
    IF is_dir(st.fs, src)
    THEN LET mk == mkdir_p(st.fs, dst)
         IN  IF ~mk.ok
             THEN [fs |-> mk.fs, ok |-> FALSE, log |-> st.log]
             ELSE LET after == merge_children(
                                  [fs |-> mk.fs, ok |-> TRUE, log |-> st.log],
                                  src, dst, iterdir(mk.fs, src, ord), ord)
                  IN  IF after.ok
                      THEN [after EXCEPT !.fs = try_rmdir(after.fs, src)]
                      ELSE after
    ELSE IF exists(st.fs, dst)
         THEN MoveAside(st, src, dst)
         ELSE MoveInto(st, src, dst)

(***************************************************************************)
(* The filesystems main can find: the imported subdirectory SUB beside the *)
(* root's own entries.                                                     *)
(***************************************************************************)
SUB == "proj-main"

RECURSIVE Suffixed(_, _)
Suffixed(base, k) == IF k = 0 THEN base ELSE Suffixed(base, k - 1) \o FROM_IMPORT

\* Names of the entries of the root and of SUB.
TopNames == {Suffixed("X", k) : k \in 0..MaxSuffix}
\* Names of the entries of a directory below them.
ChildNames == {"X", "X" \o FROM_IMPORT}

RECURSIVE Perms(_)
Perms(S) ==
    IF S = {} THEN {<<>>}
    ELSE UNION {{<<x>> \o p : p \in Perms(S \ {x})} : x \in S}

\* The listing orders a directory scan can produce.
Orders == Perms(ChildNames)

\* What one name of the root can hold.
RootShapes == {"absent", "file", "emptydir", "dirX", "dirXF"}
\* What one name of SUB can hold.
SubShapes == {"absent", "file", "dirX", "dirXF"}

ShapeChildren(shape) ==
    CASE shape = "dirX" -> {"X"}
      [] shape = "dirXF" -> ChildNames
      [] OTHER -> {}

RECURSIVE PathStr(_)
PathStr(p) == IF p = <<>> THEN "" ELSE PathStr(parent(p)) \o "/" \o name(p)

\* The entries a shape puts at path p; every file gets a content of its own.
ShapePaths(p, shape) ==
    IF shape = "absent" THEN {}
    ELSE {p} \cup {Append(p, c) : c \in ShapeChildren(shape)}

ShapeEntry(p, q, shape) ==
    IF q = p /\ shape # "file" THEN Dir ELSE File(PathStr(q))

MakeFs(rootShape, subShape) ==
    LET paths == {<<>>, <<SUB>>}
                 \cup UNION {ShapePaths(<<n>>, rootShape[n]) : n \in TopNames}
                 \cup UNION {ShapePaths(<<SUB, n>>, subShape[n]) : n \in TopNames}
        top(q) == IF q[1] = SUB THEN <<SUB, q[2]>> ELSE <<q[1]>>
        shape(q) == IF q[1] = SUB THEN subShape[q[2]] ELSE rootShape[q[1]]
    IN  [q \in paths |->
            IF q = <<>> \/ q = <<SUB>> THEN Dir
            ELSE ShapeEntry(top(q), q, shape(q))]

InitFileSystems ==
    {MakeFs(r, s) : r \in [TopNames -> RootShapes], s \in [TopNames -> SubShapes]}

NoCall == [made |-> FALSE, src |-> <<>>, dst |-> <<>>, srcWasDir |-> FALSE,
           pre |-> <<>>, log |-> {}, ok |-> TRUE]

IdleMerge ==
    /\ fs = <<>>
    /\ pending = {}
    /\ pc = "off"
    /\ call = NoCall

(***************************************************************************)
(* Text documents and the regular expressions of the patch routines.       *)
(* A text is a sequence of tokens; " " and "\n" are the whitespace tokens, *)
(* every other token is a run of non-whitespace characters.                *)
(***************************************************************************)
\* \s
IsSpace(t) == t = " " \/ t = "\n"

\* \s* from position i: the position after the longest run of whitespace.
RECURSIVE SkipSpace(_, _)
SkipSpace(text, i) ==
    IF i <= Len(text) /\ IsSpace(text[i]) THEN SkipSpace(text, i + 1) ELSE i

\* .* from position i: the position of the next "\n", or the end.
RECURSIVE LineEnd(_, _)
LineEnd(text, i) ==
    IF i <= Len(text) /\ text[i] # "\n" THEN LineEnd(text, i + 1) ELSE i

\* (?m)^ at position i.
AtLineStart(text, i) == i = 1 \/ text[i - 1] = "\n"

\* (?m)^\s*key\s*: matched at position i: the position after the colon,
\* 0 when there is no match at i.
KeyEnd(text, i, key) ==
    LET j == SkipSpace(text, i)
        k == SkipSpace(text, j + 1)
    IN  IF /\ AtLineStart(text, i)
           /\ j <= Len(text) /\ text[j] = key
           /\ k <= Len(text) /\ text[k] = ":"
        THEN k + 1 ELSE 0

\* re.search(r"(?m)^\s*key\s*:", text) is not None
search_key(text, key) == \E i \in 1..Len(text) : KeyEnd(text, i, key) # 0

\* (?m)^\s*key\s*:\s*.*$ matched at position i: the position after the
\* match (\s* takes all whitespace, line breaks included, then .* runs to
\* the end of the line it has reached).
KeyLineEnd(text, i, key) == LineEnd(text, SkipSpace(text, KeyEnd(text, i, key)))

\* re.sub(r"(?m)^\s*key\s*:\s*.*$", repl, text) from position i on.
RECURSIVE sub_key_line(_, _, _, _)
sub_key_line(text, i, key, repl) ==
    LET hits == {k \in i..Len(text) : KeyEnd(text, k, key) # 0}
    IN  IF hits = {} THEN SubSeq(text, i, Len(text))
        ELSE LET p == CHOOSE k \in hits : \A h \in hits : k <= h
             IN  SubSeq(text, i, p - 1) \o repl
                 \o sub_key_line(text, KeyLineEnd(text, p, key), key, repl)

\* needle in text (str.__contains__)
Contains(text, needle) ==
    \E i \in 1..(Len(text) + 1 - Len(needle)) :
        SubSeq(text, i, i + Len(needle) - 1) = needle

\* str.rstrip()
RECURSIVE rstrip(_)
rstrip(text) ==
    IF text # <<>> /\ IsSpace(text[Len(text)])
    THEN rstrip(SubSeq(text, 1, Len(text) - 1)) ELSE text

(***************************************************************************)
(* ensure_config                                                           *)
(***************************************************************************)
\* f"username: {username}"
UsernameLine(u) == <<"username", ":", " ">> \o u

\* What re.sub makes of its replacement string before it puts it in: the
\* replacement is a template, and the two characters backslash, n in it
\* stand for a line break.  ("\\n" is the token backslash, n; "\n" is the
\* line break.)
expand_template(repl) ==
    [i \in 1..Len(repl) |-> IF repl[i] = "\\n" THEN "\n" ELSE repl[i]]

\* Lines 97-101: the username line of the text read from config.yml.  The
\* f-string goes through re.sub as a template in the first branch and is
\* put in as it is in the second.
set_username(text, u) ==
    IF search_key(text, "username")
    THEN sub_key_line(text, 1, "username", expand_template(UsernameLine(u)))
    ELSE UsernameLine(u) \o <<"\n">> \o text

\* re.search(r"(?m)^\s*config\.yml\s*$", gi): some line holds config.yml
\* between whitespace only.
ignores_config(gi) ==
    \E i \in 1..Len(gi) :
        /\ gi[i] = "config.yml"
        /\ \E s \in 1..i : AtLineStart(gi, s) /\ SkipSpace(gi, s) = i
        /\ \E e \in (i + 1)..(Len(gi) + 1) :
              /\ \A k \in (i + 1)..(e - 1) : IsSpace(gi[k])
              /\ (e = Len(gi) + 1 \/ gi[e] = "\n")

EXCEPTION == <<"!", "config.yml">>

\* Lines 105-111: the exception appended to .gitignore.
patch_gitignore(g) ==
    IF g.exists /\ ignores_config(g.text) /\ ~Contains(g.text, EXCEPTION)
    THEN [g EXCEPT !.text = rstrip(g.text)
              \o <<"\n", "\n", "# allow profile config", "\n">> \o EXCEPTION \o <<"\n">>]
    ELSE g

Absent == [exists |-> FALSE, text |-> <<>>]
Present(text) == [exists |-> TRUE, text |-> text]

\* Lines 87-91: the first template that exists, 0 when there is none.
first_example(ex) ==
    IF \E i \in 1..Len(ex) : ex[i].exists
    THEN CHOOSE i \in 1..Len(ex) :
            ex[i].exists /\ \A k \in 1..(i - 1) : ~ex[k].exists
    ELSE 0

\* Texts of 1..MaxLines lines drawn from a set of lines, ending with a line
\* break or not.
RECURSIVE Join(_)
Join(lines) ==
    IF Len(lines) = 1 THEN lines[1]
    ELSE lines[1] \o <<"\n">> \o Join(Tail(lines))

Texts(lineSet) ==
    UNION {{Join(ls) \o tail : ls \in [1..n -> lineSet], tail \in {<<>>, <<"\n">>}}
           : n \in 1..MaxLines}

ConfigLines ==
    {<<>>, <<"a">>, <<"b">>,
     <<"username", ":", " ", "old">>,
     <<" ", "username", " ", ":", "old">>,
     <<"username", ":">>}

IgnoreLines ==
    {<<>>, <<"x">>,
     <<"config.yml">>,
     <<" ", "config.yml", " ">>,
     <<"!", "config.yml">>,
     <<"!", "config.yml", ".bak">>}

\* --username: empty, plain, and one that holds backslash, n.
Usernames == {<<>>, <<"new">>, <<"old">>, <<"a", "\\n", "b">>}

NoExamples == <<Absent, Absent, Absent, Absent>>

\* Where the config text is when ensure_config starts: in config.yml, or in
\* a template that ensure_config copies.
ConfigLayouts(text) ==
    {[config |-> Present(text), examples |-> NoExamples],
     [config |-> Absent, examples |-> <<Present(text), Absent, Absent, Absent>>],
     [config |-> Absent,
      examples |-> <<Absent, Present(text), Absent, Present(<<"b">>)>>],
     [config |-> Absent, examples |-> NoExamples]}

\* luerfel_config_yml(username): the template, every line but the username
\* line one token; \u2022 and \u2014 stand for the two characters of the
\* template outside ASCII.
luerfel_config_yml(u) ==
    <<"# Galaxy Profile README Configuration", "\n",
      "username", ":", " ">> \o u \o
    <<"\n",
      "\n",
      "profile:", "\n",
      "  name: \"Luerfel\"", "\n",
      "  tagline: \"Software Engineer \\u2022 Data & AI (NLP)\"", "\n",
      "  company: \"Soepia\"", "\n",
      "  location: \"Campinas, SP \\u2014 Brazil\"", "\n",
      "  bio: |", "\n",
      "    Building data-driven products.", "\n",
      "    Interested in NLP, machine learning, and automation.", "\n",
      "  philosophy: '\"Keep shipping. Keep learning.\"'", "\n",
      "\n",
      "social:", "\n",
      "  email: \"mluerfel@gmail.com\"", "\n",
      "  linkedin: \"matheus-mendonca-65ba63243\"", "\n",
      "  website: \"\"", "\n",
      "\n",
      "galaxy_arms:", "\n",
      "  - name: \"Data Science & ML\"", "\n",
      "    color: \"synapse_cyan\"", "\n",
      "    items:", "\n",
      "      - \"Python\"", "\n",
      "      - \"Pandas\"", "\n",
      "      - \"Machine Learning\"", "\n",
      "      - \"Data Analysis\"", "\n",
      "\n",
      "  - name: \"NLP & Knowledge\"", "\n",
      "    color: \"dendrite_violet\"", "\n",
      "    items:", "\n",
      "      - \"NLP\"", "\n",
      "      - \"Information Extraction\"", "\n",
      "      - \"Knowledge Graphs\"", "\n",
      "      - \"Text Mining\"", "\n",
      "\n",
      "  - name: \"Backend & Cloud\"", "\n",
      "    color: \"axon_amber\"", "\n",
      "    items:", "\n",
      "      - \"Node.js\"", "\n",
      "      - \"APIs\"", "\n",
      "      - \"Docker\"", "\n",
      "      - \"AWS\"", "\n",
      "\n",
      "projects: []", "\n",
      "\n",
      "theme:", "\n",
      "  void: \"#080c14\"", "\n",
      "  nebula: \"#0f1623\"", "\n",
      "  star_dust: \"#1a2332\"", "\n",
      "  synapse_cyan: \"#00d4ff\"", "\n",
      "  dendrite_violet: \"#a78bfa\"", "\n",
      "  axon_amber: \"#ffb020\"", "\n",
      "  text_bright: \"#f1f5f9\"", "\n",
      "  text_dim: \"#94a3b8\"", "\n",
      "  text_faint: \"#64748b\"", "\n",
      "\n",
      "stats:", "\n",
      "  metrics:", "\n",
      "    - \"commits\"", "\n",
      "    - \"stars\"", "\n",
      "    - \"prs\"", "\n",
      "    - \"issues\"", "\n",
      "    - \"repos\"", "\n",
      "\n",
      "languages:", "\n",
      "  exclude:", "\n",
      "    - \"HTML\"", "\n",
      "    - \"CSS\"", "\n",
      "    - \"Shell\"", "\n",
      "    - \"Makefile\"", "\n",
      "  max_display: 8", "\n">>

IdleProbe ==
    /\ children = <<>>
    /\ found = 0
    /\ probed = FALSE

IdleWorkflow ==
    /\ wfdir = FALSE
    /\ workflow = Absent
    /\ wfRuns = 0
    /\ wfRead = <<>>
    /\ wfPatched = FALSE
    /\ wfWrote = FALSE
    /\ wfpc = "off"

IdleConfig ==
    /\ config = Absent
    /\ examples = NoExamples
    /\ gitignore = Absent
    /\ username = <<>>
    /\ runs = 0
    /\ read = <<>>
    /\ cfgpc = "off"

InitConfig ==
    /\ \/ /\ \E text \in Texts(ConfigLines) : \E l \in ConfigLayouts(text) :
                config = l.config /\ examples = l.examples
          /\ gitignore \in {Absent, Present(<<"config.yml", "\n">>)}
       \/ /\ config = Present(<<"username", ":", " ", "old", "\n">>)
          /\ examples = NoExamples
          /\ gitignore \in {Present(text) : text \in Texts(IgnoreLines)}
    /\ username \in Usernames
    /\ runs = 0
    /\ read = <<>>
    /\ cfgpc = "ready"
    /\ IdleMerge
    /\ IdleWorkflow
    /\ IdleProbe

\* ensure_config(root, username), a run that returns.
EnsureConfig ==
    /\ cfgpc \in {"ready", "forced"}
    /\ runs < MaxRuns
    /\ config.exists \/ first_example(examples) # 0
    /\ LET text == IF config.exists THEN config.text
                   ELSE examples[first_example(examples)].text
       IN  /\ read' = text
           /\ config' = Present(set_username(text, username))
    /\ gitignore' = patch_gitignore(gitignore)
    /\ runs' = runs + 1
    /\ cfgpc' = "ready"
    /\ UNCHANGED <<examples, username>>
    /\ UNCHANGED <<varsMerge, varsWorkflow, varsProbe>>

\* ensure_config(root, username) without config.yml and without a template:
\* FileNotFoundError.
EnsureConfigNoTemplate ==
    /\ cfgpc = "ready"
    /\ ~config.exists /\ first_example(examples) = 0
    /\ cfgpc' = "error"
    /\ UNCHANGED <<config, examples, gitignore, username, runs, read>>
    /\ UNCHANGED <<varsMerge, varsWorkflow, varsProbe>>

\* write_config_force(root, username): main of galaxy_run.py calls it under
\* --luerfel-config, right after ensure_config has returned.  It reads
\* nothing, and the text ensure_config had read is gone with that call.
WriteConfigForce ==
    /\ cfgpc = "ready"
    /\ runs >= 1
    /\ config' = Present(luerfel_config_yml(username))
    /\ read' = <<>>
    /\ cfgpc' = "forced"
    /\ UNCHANGED <<examples, gitignore, username, runs>>
    /\ UNCHANGED <<varsMerge, varsWorkflow, varsProbe>>

NextConfig == EnsureConfig \/ EnsureConfigNoTemplate \/ WriteConfigForce

SpecConfig == InitConfig /\ [][NextConfig]_vars

(***************************************************************************)
(* update_workflow (bootstrap_galaxy_profile.py) and ensure_workflow       *)
(* (galaxy_run.py)                                                         *)
(***************************************************************************)
MARKER == "python -m generator.main"
\* "python -m generator.main --demo"
DEMO_CALL == <<MARKER, " ", "--demo">>

\* "\n\npermissions:\n  contents: write\n", put after the name line
BLOCK_AFTER_NAME ==
    <<"\n", "\n", "permissions", ":", "\n", " ", " ", "contents", ":", " ", "write", "\n">>
\* "permissions:\n  contents: write\n\n", put at the top of the file
BLOCK_AT_TOP ==
    <<"permissions", ":", "\n", " ", " ", "contents", ":", " ", "write", "\n", "\n">>

\* DEFAULT_WORKFLOW_YML: a line is one token, but for the name, permissions
\* and contents lines and the generator call, which are split as the patch
\* reads them.
DEFAULT_WORKFLOW_YML ==
    <<"name", ":", " ", "Generate Profile SVGs", "\n",
      "\n",
      "on:", "\n",
      "  workflow_dispatch:", "\n",
      "  schedule:", "\n",
      "    - cron: \"0 */12 * * *\"", "\n",
      "  push:", "\n",
      "    paths:", "\n",
      "      - \"config.yml\"", "\n",
      "      - \"generator/**\"", "\n",
      "      - \".github/workflows/generate-profile.yml\"", "\n",
      "\n",
      "permissions", ":", "\n",
      " ", " ", "contents", ":", " ", "write", "\n",
      "\n",
      "jobs:", "\n",
      "  generate:", "\n",
      "    runs-on: ubuntu-latest", "\n",
      "    steps:", "\n",
      "      - name: Checkout", "\n",
      "        uses: actions/checkout@v4", "\n",
      "        with:", "\n",
      "          fetch-depth: 0", "\n",
      "\n",
      "      - name: Setup Python", "\n",
      "        uses: actions/setup-python@v5", "\n",
      "        with:", "\n",
      "          python-version: \"3.11\"", "\n",
      "\n",
      "      - name: Install deps", "\n",
      "        run: |", "\n",
      "          python -m pip install --upgrade pip", "\n",
      "          pip install -r requirements.txt", "\n",
      "\n",
      "      - name: Generate SVGs", "\n",
      "        run: |", "\n",
      " ", " ", " ", " ", " ", " ", " ", " ", " ", " ", MARKER, "\n",
      "\n",
      "      - name: Commit generated SVGs", "\n",
      "        run: |", "\n",
      "          git status --porcelain", "\n",
      "          if [ -n \"$(git status --porcelain assets/generated)\" ]; then", "\n",
      "            git config user.name \"github-actions[bot]\"", "\n",
      "            git config user.email \"41898282+github-actions[bot]@users.noreply.github.com\"", "\n",
      "            git add assets/generated", "\n",
      "            git commit -m \"chore: update profile SVGs [skip ci]\"", "\n",
      "            git push", "\n",
      "          else", "\n",
      "            echo \"No SVG changes to commit.\"", "\n",
      "          fi", "\n">>

\* new.replace("python -m generator.main --demo", "python -m generator.main")
\* from position i on: one pass, left to right, each occurrence found after
\* the end of the one before.
RECURSIVE replace_demo(_, _)
replace_demo(text, i) ==
    LET hits == {k \in i..(Len(text) - 2) : SubSeq(text, k, k + 2) = DEMO_CALL}
    IN  IF hits = {} THEN SubSeq(text, i, Len(text))
        ELSE LET p == CHOOSE k \in hits : \A h \in hits : k <= h
             IN  SubSeq(text, i, p - 1) \o <<MARKER>> \o replace_demo(text, p + 3)

\* re.search(r"(?m)^\s*name\s*:\s*.*$", new): where the first match starts.
first_name(text) ==
    CHOOSE i \in 1..Len(text) :
        /\ KeyEnd(text, i, "name") # 0
        /\ \A k \in 1..(i - 1) : KeyEnd(text, k, "name") = 0

\* Lines 131-140: the permissions block.
ensure_permissions(new) ==
    IF search_key(new, "permissions") THEN new
    ELSE IF search_key(new, "name")
         THEN LET insert_at == KeyLineEnd(new, first_name(new), "name")
              IN  SubSeq(new, 1, insert_at - 1) \o BLOCK_AFTER_NAME
                  \o SubSeq(new, insert_at, Len(new))
         ELSE BLOCK_AT_TOP \o new

\* Lines 126-140: the patch of one workflow text.
patch_workflow(content) == ensure_permissions(replace_demo(content, 1))

WorkflowLines ==
    {<<>>, <<"on", ":">>,
     <<"name", ":", " ", "Generate">>,
     <<"name", ":">>,
     <<"permissions", ":">>,
     <<" ", "permissions", ":">>,
     <<MARKER>>,
     <<MARKER, " ", "--demo">>,
     <<MARKER, " ", "--demo", " ", "--demo">>}

InitWorkflow ==
    /\ \/ wfdir = FALSE /\ workflow = Absent
       \/ wfdir = TRUE /\ workflow = Absent
       \/ wfdir = TRUE /\ workflow \in {Present(t) : t \in Texts(WorkflowLines)}
    /\ wfRuns = 0
    /\ wfRead = <<>>
    /\ wfPatched = FALSE
    /\ wfWrote = FALSE
    /\ wfpc = "ready"
    /\ IdleMerge
    /\ IdleConfig
    /\ IdleProbe

\* update_workflow(root) with .github/workflows present: every *.yml file
\* there that holds the marker is patched, and written when changed.
UpdateWorkflow ==
    /\ wfpc = "ready"
    /\ wfRuns < MaxRuns
    /\ wfdir
    /\ LET hit == workflow.exists /\ Contains(workflow.text, <<MARKER>>)
           new == patch_workflow(workflow.text)
       IN  /\ wfRead' = workflow.text
           /\ wfPatched' = hit
           /\ wfWrote' = (hit /\ new # workflow.text)
           /\ workflow' = IF hit THEN Present(new) ELSE workflow
    /\ wfRuns' = wfRuns + 1
    /\ UNCHANGED <<wfdir, wfpc>>
    /\ UNCHANGED <<varsMerge, varsConfig, varsProbe>>

\* update_workflow(root) without .github/workflows: FileNotFoundError.
UpdateWorkflowNoDir ==
    /\ wfpc = "ready"
    /\ ~wfdir
    /\ wfpc' = "error"
    /\ UNCHANGED <<wfdir, workflow, wfRuns, wfRead, wfPatched, wfWrote>>
    /\ UNCHANGED <<varsMerge, varsConfig, varsProbe>>

\* ensure_workflow(root) without the workflow file: the default is written.
EnsureWorkflowCreate ==
    /\ wfpc = "ready"
    /\ wfRuns < MaxRuns
    /\ ~workflow.exists
    /\ wfdir' = TRUE
    /\ workflow' = Present(DEFAULT_WORKFLOW_YML)
    /\ wfRead' = <<>>
    /\ wfPatched' = FALSE
    /\ wfWrote' = TRUE
    /\ wfRuns' = wfRuns + 1
    /\ UNCHANGED wfpc
    /\ UNCHANGED <<varsMerge, varsConfig, varsProbe>>

\* ensure_workflow(root) on an existing workflow file: patched whatever it
\* holds, and written when changed.
EnsureWorkflowPatch ==
    /\ wfpc = "ready"
    /\ wfRuns < MaxRuns
    /\ workflow.exists
    /\ LET new == patch_workflow(workflow.text)
       IN  /\ wfRead' = workflow.text
           /\ wfPatched' = TRUE
           /\ wfWrote' = (new # workflow.text)
           /\ workflow' = Present(new)
    /\ wfRuns' = wfRuns + 1
    /\ UNCHANGED <<wfdir, wfpc>>
    /\ UNCHANGED <<varsMerge, varsConfig, varsProbe>>

NextWorkflow ==
    \/ UpdateWorkflow
    \/ UpdateWorkflowNoDir
    \/ EnsureWorkflowCreate
    \/ EnsureWorkflowPatch

SpecWorkflow == InitWorkflow /\ [][NextWorkflow]_vars

(***************************************************************************)
(* is_repo_structure and find_imported_subdir.  An entry of the root is    *)
(* [name, kind, generator, requirements]: its name as a sequence of        *)
(* tokens, "dir" or "file", and what name/generator and                    *)
(* name/requirements.txt are: "dir", "file" or "absent".                   *)
(***************************************************************************)
\* (p / "generator").is_dir() and (p / "requirements.txt").is_file()
is_repo_structure(d) == d.generator = "dir" /\ d.requirements = "file"

\* str.lower() of one token of a name.
Lower(t) ==
    CASE t = "-MAIN" -> "-main"
      [] t = "-Master" -> "-master"
      [] t = "Repo" -> "repo"
      [] OTHER -> t

\* d.name.lower().endswith(("-main", "-master"))
ends_with_import_suffix(n) ==
    n # <<>> /\ Lower(n[Len(n)]) \in {"-main", "-master"}

\* d.name.startswith(".")
starts_with_dot(n) == n # <<>> /\ n[1] = "."

\* Lines 41-45: the positions the first loop appends to candidates.
RECURSIVE candidates(_, _)
candidates(ch, i) ==
    IF i > Len(ch) THEN <<>>
    ELSE IF /\ ch[i].kind = "dir" /\ ~starts_with_dot(ch[i].name)
            /\ ends_with_import_suffix(ch[i].name)
            /\ is_repo_structure(ch[i])
         THEN <<i>> \o candidates(ch, i + 1)
         ELSE candidates(ch, i + 1)

\* Lines 49-52: the second loop, from position i on.
RECURSIVE fallback(_, _)
fallback(ch, i) ==
    IF i > Len(ch) THEN 0
    ELSE IF /\ ch[i].kind = "dir" /\ ~starts_with_dot(ch[i].name)
            /\ is_repo_structure(ch[i])
         THEN i
         ELSE fallback(ch, i + 1)

\* find_imported_subdir that takes the first candidate whenever there is one.
FindImportedSubdirFirstCandidate(ch) ==
    IF Len(candidates(ch, 1)) >= 1 THEN candidates(ch, 1)[1] ELSE fallback(ch, 1)

find_imported_subdir(ch) ==
    IF Len(candidates(ch, 1)) = 1 THEN candidates(ch, 1)[1] ELSE fallback(ch, 1)

\* The names an entry of the root can have.
EntryNames ==
    {<<"app">>, <<"repo", "-main">>, <<"Repo", "-MAIN">>, <<"old", "-Master">>,
     <<".", "hid", "-main">>}

\* What an entry can be: a file, a directory with both markers, with one of
\* them, or with a file named generator.
EntryKinds ==
    {[kind |-> "file", generator |-> "absent", requirements |-> "absent"],
     [kind |-> "dir", generator |-> "dir", requirements |-> "file"],
     [kind |-> "dir", generator |-> "dir", requirements |-> "absent"],
     [kind |-> "dir", generator |-> "file", requirements |-> "file"]}

Entry(n, k) == [name |-> n, kind |-> k.kind,
                generator |-> k.generator, requirements |-> k.requirements]

\* The listings of a root: up to MaxChildren entries with different names.
Listings ==
    UNION {{[i \in 1..n |-> Entry(ns[i], ks[i])] :
               ns \in {f \in [1..n -> EntryNames] :
                          \A a, b \in 1..n : a # b => f[a] # f[b]},
               ks \in [1..n -> EntryKinds]}
           : n \in 0..MaxChildren}

InitProbe ==
    /\ children \in Listings
    /\ found = 0
    /\ probed = FALSE
    /\ IdleMerge
    /\ IdleConfig
    /\ IdleWorkflow

\* sub = find_imported_subdir(root)
FindImportedSubdir ==
    /\ ~probed
    /\ found' = find_imported_subdir(children)
    /\ probed' = TRUE
    /\ UNCHANGED children
    /\ UNCHANGED <<varsMerge, varsConfig, varsWorkflow>>

NextProbe == FindImportedSubdir

SpecProbe == InitProbe /\ [][NextProbe]_vars

(***************************************************************************)
(* main: the relocation loop                                               *)
(***************************************************************************)
InitMerge ==
    /\ fs \in InitFileSystems
    /\ pending = {name(q) : q \in Children(fs, <<SUB>>)}
    /\ pc = "loop"
    /\ call = NoCall
    /\ IdleConfig
    /\ IdleWorkflow
    /\ IdleProbe

\* for item in list(sub.iterdir()): merge_move(item, root / item.name)
MergeMoveItem ==
    /\ pc = "loop"
    /\ \E item \in pending, ord \in Orders :
          LET src == <<SUB, item>>
              dst == <<item>>
              r == merge_move([fs |-> fs, ok |-> TRUE, log |-> {}], src, dst, ord)
          IN  /\ fs' = r.fs
              /\ pending' = pending \ {item}
              /\ pc' = IF r.ok THEN "loop" ELSE "error"
              /\ call' = [made |-> TRUE, src |-> src, dst |-> dst,
                          srcWasDir |-> is_dir(fs, src),
                          pre |-> fs, log |-> r.log, ok |-> r.ok]
    /\ UNCHANGED <<varsConfig, varsWorkflow, varsProbe>>

\* try: sub.rmdir() except OSError: pass
RemoveSub ==
    /\ pc = "loop"
    /\ pending = {}
    /\ fs' = try_rmdir(fs, <<SUB>>)
    /\ pc' = "done"
    /\ UNCHANGED <<pending, call>>
    /\ UNCHANGED <<varsConfig, varsWorkflow, varsProbe>>

NextMerge == MergeMoveItem \/ RemoveSub

SpecMerge == InitMerge /\ [][NextMerge]_vars

(***************************************************************************)
(* Claims about merge_move (SpecMerge)                                     *)
(***************************************************************************)
Alt(p) == with_name(p, name(p) \o FROM_IMPORT)
Contents(f) == {f[p].content : p \in {q \in DOMAIN f : f[q].kind = "file"}}
Returned == call.made /\ call.ok
Diverted == {e \in call.log : e.conflict}

\* C1 (as stated): when merge_move has returned, every destination path that
\* existed when a source file reached it still holds what it held then, and
\* the source file's content is the file at destination-name + ".from_import".
C1_NonDestructiveMerge ==
    Returned =>
        \A e \in Diverted :
            /\ exists(fs, e.dst) /\ fs[e.dst] = e.held
            /\ is_file(fs, Alt(e.dst)) /\ fs[Alt(e.dst)].content = e.content

\* C2 (as stated): when merge_move has returned, every file content that was
\* on disk before the call is still on disk at some path.
C2_NoContentDestroyed ==
    Returned => Contents(call.pre) \subseteq Contents(fs)

\* C3 (as stated): after merge_move on a source directory, an emptied source
\* directory is gone, and a source directory from which a file was diverted
\* to a .from_import path still exists.
C3_CleanupAsStated ==
    (Returned /\ call.srcWasDir) =>
        /\ (Children(fs, call.src) = {} => ~exists(fs, call.src))
        /\ (Diverted # {} => exists(fs, call.src))

\* C3 (amended): after merge_move on a source directory has returned, the
\* source directory no longer exists, whether or not a file was diverted:
\* a diverted file is put beside its destination, not left in the source.
C3_SourceDirRemoved ==
    (Returned /\ call.srcWasDir) => ~exists(fs, call.src)

\* A source directory from which a file was diverted, after the call.
C3_Witness ==
    /\ Returned /\ call.srcWasDir
    /\ Diverted # {}
    /\ ~exists(fs, call.src)

(***************************************************************************)
(* Claims about ensure_config (SpecConfig)                                 *)
(***************************************************************************)
\* The lines of a text: text.split("\n").
RECURSIVE Split(_)
Split(text) ==
    LET e == LineEnd(text, 1)
    IN  IF e > Len(text) THEN <<text>>
        ELSE <<SubSeq(text, 1, e - 1)>> \o Split(SubSeq(text, e + 1, Len(text)))

\* A line that matches the username key: username, colon, whitespace aside.
IsUsernameLine(line) == KeyEnd(line, 1, "username") # 0
UsernameLines(text) ==
    LET ls == Split(text) IN {i \in 1..Len(ls) : IsUsernameLine(ls[i])}

\* The text a run must leave by the frame rule: the username line replaced
\* in place, or a username line put first when there was none, and every
\* other line as it was.
FrameResult(text, u) ==
    LET ls == Split(text)
        want == <<"username", ":", " ">> \o u
    IN  IF UsernameLines(text) = {}
        THEN want \o <<"\n">> \o text
        ELSE Join([i \in 1..Len(ls) |->
                      IF IsUsernameLine(ls[i]) THEN want ELSE ls[i]])

\* ensure_config has run n times or more and config.yml is as its last run
\* left it: write_config_force has not replaced it since.
AfterEnsureConfig(n) == runs >= n /\ cfgpc = "ready"

\* C4 (as stated): a second ensure_config run with the same identifier
\* leaves config.yml as the first run left it.
C4_ConfigIdempotent ==
    AfterEnsureConfig(2) => config.text = read

\* C5 (as stated): after ensure_config, exactly one line of config.yml
\* matches the username key, and it reads username: <identifier>.
C5_ExactlyOneUsernameLine ==
    AfterEnsureConfig(1) =>
        /\ Cardinality(UsernameLines(config.text)) = 1
        /\ \A i \in UsernameLines(config.text) :
              Split(config.text)[i] = <<"username", ":", " ">> \o username

\* C6 (as stated): a run over a text with at most one username line changes
\* nothing but that line (or puts one first); all other lines, blank ones
\* and the line after an empty username value included, stay as they were.
C6_ConfigFrame ==
    (AfterEnsureConfig(1) /\ Cardinality(UsernameLines(read)) <= 1) =>
        config.text = FrameResult(read, username)

\* A line that is the exception !config.yml, spaces aside.
IsExceptionLine(line) ==
    LET j == SkipSpace(line, 1)
    IN  /\ j + 1 <= Len(line)
        /\ line[j] = "!" /\ line[j + 1] = "config.yml"
        /\ SkipSpace(line, j + 2) > Len(line)
ExceptionLines(text) ==
    {i \in 1..Len(Split(text)) : IsExceptionLine(Split(text)[i])}

\* C7 (as stated): once ensure_config has run on a .gitignore that has a
\* config.yml line, the file holds exactly one !config.yml line.
C7_OneExceptionLine ==
    (runs >= 1 /\ gitignore.exists /\ ignores_config(gitignore.text)) =>
        Cardinality(ExceptionLines(gitignore.text)) = 1

(***************************************************************************)
(* Claims about the workflow patch (SpecWorkflow)                          *)
(***************************************************************************)
\* The lines of a text that match the permissions key.
PermissionLines(text) ==
    {i \in 1..Len(Split(text)) : KeyEnd(Split(text)[i], 1, "permissions") # 0}

\* permissions: at the start of a line, followed by the line "  contents: write"
TOP_BLOCK ==
    <<"permissions", ":", "\n", " ", " ", "contents", ":", " ", "write", "\n">>
TopBlocks(text) ==
    {i \in 1..Len(text) :
        /\ AtLineStart(text, i)
        /\ i + Len(TOP_BLOCK) - 1 <= Len(text)
        /\ SubSeq(text, i, i + Len(TOP_BLOCK) - 1) = TOP_BLOCK}

\* Where the lines of a text that match the name key start.
NameLineStarts(text) ==
    {i \in 1..Len(text) :
        /\ AtLineStart(text, i)
        /\ KeyEnd(SubSeq(text, i, LineEnd(text, i) - 1), 1, "name") # 0}

\* The lines of a text that are not blank.
NonBlankLines(text) ==
    SelectSeq(Split(text), LAMBDA l : SkipSpace(l, 1) <= Len(l))

\* The placement rule, blank lines aside: the two lines of the block come
\* right after the first name line of pre, or first when pre has no name
\* line, in which case the text starts with the block.
PlacedBlock(pre, text) ==
    LET block == <<<<"permissions", ":">>, <<" ", " ", "contents", ":", " ", "write">>>>
    IN  IF NameLineStarts(pre) = {}
        THEN /\ NonBlankLines(text) = block \o NonBlankLines(pre)
             /\ Len(text) >= Len(TOP_BLOCK)
             /\ SubSeq(text, 1, Len(TOP_BLOCK)) = TOP_BLOCK
        ELSE LET i == CHOOSE i \in NameLineStarts(pre) :
                         \A k \in NameLineStarts(pre) : i <= k
                 e == LineEnd(pre, i)
             IN  NonBlankLines(text) =
                     NonBlankLines(SubSeq(pre, 1, e - 1)) \o block
                     \o NonBlankLines(SubSeq(pre, e, Len(pre)))

\* C8 (as stated): after the patch has been applied twice to a workflow text
\* that holds the marker, the text has exactly one permissions line and no
\* demo-flagged invocation, and the second application changed nothing.
C8_WorkflowIdempotent ==
    (wfRuns >= 2 /\ wfPatched /\ Contains(wfRead, <<MARKER>>)) =>
        /\ Cardinality(PermissionLines(workflow.text)) = 1
        /\ ~Contains(workflow.text, DEMO_CALL)
        /\ workflow.text = wfRead

\* C9 (as stated): after the patch the text has exactly one top-level
\* permissions declaration granting contents: write; when the text had no
\* permissions line the block is right after the name line, or at the very
\* start when there is no name line.
C9_PermissionsPlacement ==
    (wfRuns >= 1 /\ wfPatched) =>
        LET pre == replace_demo(wfRead, 1)
        IN  /\ Cardinality(TopBlocks(workflow.text)) = 1
            /\ PermissionLines(pre) = {} => PlacedBlock(pre, workflow.text)

\* The last run read a workflow document that was already there: every run
\* but the one that creates the default file, and the one that finds none.
DocumentRead ==
    wfRuns >= 1 /\ workflow.exists /\ ~(wfWrote /\ ~wfPatched)

\* C11 (as stated): a workflow document without the marker that either
\* routine has read is left as it was and is not written; a document is
\* written only when its patched text differs from the text read.
C11_MarkerFrame ==
    DocumentRead =>
        /\ ~Contains(wfRead, <<MARKER>>) => (workflow.text = wfRead /\ ~wfWrote)
        /\ wfWrote => (workflow.text # wfRead /\ workflow.text = patch_workflow(wfRead))

(***************************************************************************)
(* Claims about find_imported_subdir (SpecProbe)                           *)
(***************************************************************************)
RepoDir(d) == d.kind = "dir" /\ d.generator = "dir" /\ d.requirements = "file"
HasImportSuffix(d) ==
    d.name # <<>> /\ Lower(d.name[Len(d.name)]) \in {"-main", "-master"}
Dotted(d) == d.name # <<>> /\ d.name[1] = "."

\* The directories with an import suffix and the repository structure.
NamedRepoDirs ==
    {i \in 1..Len(children) : RepoDir(children[i]) /\ HasImportSuffix(children[i])}
\* The same, without the dot-prefixed ones.
VisibleNamedRepoDirs == {i \in NamedRepoDirs : ~Dotted(children[i])}
\* The directories with the repository structure that are not dot-prefixed.
VisibleRepoDirs == {i \in 1..Len(children) : RepoDir(children[i]) /\ ~Dotted(children[i])}
First(S) == IF S = {} THEN 0 ELSE CHOOSE i \in S : \A k \in S : i <= k

\* C10 (as stated): the one directory with an import suffix and the
\* repository structure is returned; with none or several of them the first
\* non-dot-prefixed directory with the repository structure is returned, or
\* nothing; whatever is returned has the repository structure.
C10_AsStated ==
    probed =>
        /\ Cardinality(NamedRepoDirs) = 1 => found \in NamedRepoDirs
        /\ Cardinality(NamedRepoDirs) # 1 => found = First(VisibleRepoDirs)
        /\ (\A i \in 1..Len(children) : ~RepoDir(children[i])) => found = 0
        /\ found # 0 => RepoDir(children[found])

\* C10 (amended): the same with the candidates taken among the
\* non-dot-prefixed directories only.
C10_VisibleCandidates ==
    probed =>
        /\ Cardinality(VisibleNamedRepoDirs) = 1 => found \in VisibleNamedRepoDirs
        /\ Cardinality(VisibleNamedRepoDirs) # 1 => found = First(VisibleRepoDirs)
        /\ (\A i \in 1..Len(children) : ~RepoDir(children[i])) => found = 0
        /\ found # 0 => RepoDir(children[found])

\* A root where a dot-prefixed directory is the only one with an import
\* suffix and the repository structure, another directory with the structure
\* comes first in the listing, and that one is returned.
C10_Witness ==
    /\ probed
    /\ Cardinality(NamedRepoDirs) = 1
    /\ VisibleNamedRepoDirs = {}
    /\ found # 0 /\ found \notin NamedRepoDirs

====
